---- MODULE Spec2Model ----
(***************************************************************************)
(* Streaming CSV tokenizer of pkg/tableformat.go: NewReader, ReadRecord    *)
(* and commitField, one step per iteration of ReadRecord's byte loop.      *)
(* The byte source (bufio.Reader over an io.Reader) is the environment: it *)
(* hands out the next byte, end of stream, or a read error.                *)
(***************************************************************************)
EXTENDS Integers, Sequences, FiniteSets, TLC

\* ---------------------------------------------------------------- bounds
MaxLen == 4
MaxSrcErrs == 1
MaxNoRecordCalls == 2

\* ------------------------------------------------------- bytes and runes
LF == 10
CR == 13
TAB == 9
SP == 32
DQUOTE == 34
HASH == 35
COMMA == 44
LetterA == 97
LetterB == 98
ByteRange == 256
\* a rune above the byte range whose low eight bits are the comma's
WideComma == COMMA + ByteRange

\* byte(r) of a rune: the conversion keeps the low eight bits
ToByte(r) == r % ByteRange

\* configurations handed to NewReader (the Config struct)
Delimiters == {COMMA, DQUOTE}
Quotes == {0, DQUOTE, WideComma}
Comments == {0, HASH, DQUOTE}
Nulls == {<< >>, <<LetterA>>}
Configs == [Delimiter : Delimiters, Quote : Quotes, Comment : Comments,
            TrimLeading : BOOLEAN, Null : Nulls]

VARIABLES
    pc,               \* "new" | "rejected" | "idle" | "loop" | "comment"
    cfg,              \* Reader.cfg
    field,            \* Reader.field
    record,           \* Reader.record
    err,              \* Reader.err: "nil" | "ioerr"
    inQuotes,         \* Reader.inQuotes
    endOfField,       \* Reader.endOfField
    lastCharWasQuote, \* Reader.lastCharWasQuote
    currentRecord,    \* Reader.currentRecord
    currentRowNum,    \* Reader.currentRowNum
    currentColNum,    \* Reader.currentColNum
    bytesRead,        \* Reader.bytesRead
    consumed,         \* bytes the reader has taken from the source, in order
    ahead,            \* bytes buffered by Peek and not yet taken
    srcEOFs,          \* times the source has answered end of stream
    srcErrs,          \* read errors the source has reported
    arrays,           \* backing arrays of the record slices handed out by
                      \* recordPool, by number
    recordArr,        \* the backing array of Reader.record (0: nil slice)
    recordPool,       \* backing arrays held by recordPool
    kept,             \* the slices the caller was handed and has kept
    calls,            \* ReadRecord calls made so far
    callStart,        \* Len(consumed) when the current ReadRecord call began
    out,              \* records returned so far, in order
    lastRet,          \* outcome of the last finished call
    tpc,              \* "none" | "ready": NewTable has made the table
    table,            \* the Table: Headers, Rows, types
    readers,          \* the readers that share the pools, by number
    bufs,             \* backing arrays of the field buffers, by number
    fieldPool         \* backing arrays held by fieldPool

rdr == <<cfg, field, record, err, inQuotes, endOfField, lastCharWasQuote,
         currentRecord, currentRowNum, currentColNum, bytesRead>>
src == <<consumed, ahead, srcEOFs, srcErrs>>
heap == <<arrays, recordArr, recordPool, kept>>
tbl == <<tpc, table>>
shared == <<readers, bufs, fieldPool>>
csv == <<pc, rdr, src, heap, calls, callStart, out, lastRet>>
vars == <<csv, tbl, shared>>

\* the source has reported end of stream: the input is finite and ends there
srcEOF == srcEOFs > 0

\* ------------------------------------------------------------ the source
\* Bytes the source may hold: the dialect's own bytes, both line terminators,
\* a space and a letter (the code treats every other byte as it treats the
\* letter).
Alphabet ==
    {LetterA, SP, LF, CR, ToByte(cfg.Delimiter), ToByte(cfg.Quote)}
    \cup (IF cfg.Comment # 0 THEN {ToByte(cfg.Comment)} ELSE {})

\* What the underlying reader can answer when n bytes have been handed out.
Fresh(n) ==
    IF srcEOF THEN {[k |-> "eof", b |-> 0]}
    ELSE {[k |-> "byte", b |-> x] : x \in IF n < MaxLen THEN Alphabet ELSE {}}
         \cup {[k |-> "eof", b |-> 0]}
         \cup (IF srcErrs < MaxSrcErrs THEN {[k |-> "err", b |-> 0]} ELSE {})

\* bufio.Reader.ReadByte: a peeked byte first, else the underlying reader
ReadByte == IF ahead # << >> THEN {[k |-> "byte", b |-> ahead[1]]}
            ELSE Fresh(Len(consumed))

\* bufio.Reader.Peek(1) made right after a byte was taken
Peek == Fresh(Len(consumed) + 1)

\* the source after ReadByte answered r
Took(r) ==
    /\ consumed' = IF r.k = "byte" THEN Append(consumed, r.b) ELSE consumed
    /\ ahead' = << >>
    /\ srcEOFs' = IF r.k = "eof" THEN srcEOFs + 1 ELSE srcEOFs
    /\ srcErrs' = IF r.k = "err" THEN srcErrs + 1 ELSE srcErrs

\* the source after ReadByte answered byte b and then Peek(1) answered p;
\* take says whether the peeked byte is consumed by a second ReadByte
TookPeeked(b, p, take) ==
    /\ consumed' = IF p.k = "byte" /\ take THEN consumed \o <<b, p.b>>
                   ELSE Append(consumed, b)
    /\ ahead' = IF p.k = "byte" /\ ~take THEN <<p.b>> ELSE << >>
    /\ srcEOFs' = IF p.k = "eof" THEN srcEOFs + 1 ELSE srcEOFs
    /\ srcErrs' = IF p.k = "err" THEN srcErrs + 1 ELSE srcErrs

\* ------------------------------------------------------------ commitField
RECURSIVE TrimLeft(_)
TrimLeft(s) == IF s # << >> /\ s[1] \in {SP, TAB} THEN TrimLeft(Tail(s)) ELSE s

\* commitField with the sentinel matched as a prefix instead of exactly
commitField_PrefixNull(f) ==
    LET str == IF cfg.TrimLeading THEN TrimLeft(f) ELSE f
    IN  IF cfg.Null # << >> /\ Len(str) >= Len(cfg.Null)
           /\ SubSeq(str, 1, Len(cfg.Null)) = cfg.Null
        THEN << >> ELSE str

\* commitField with the null substitution made before the trimming
commitField_NullFirst(f) ==
    LET str == IF cfg.Null # << >> /\ f = cfg.Null THEN << >> ELSE f
    IN  IF cfg.TrimLeading THEN TrimLeft(str) ELSE str

\* the string commitField appends to the record for field buffer f
commitField(f) ==
    LET str == IF cfg.TrimLeading THEN TrimLeft(f) ELSE f
    IN  IF cfg.Null # << >> /\ str = cfg.Null THEN << >> ELSE str

\* --------------------------------------------------------------- NewReader
\* the test without the comparison of delimiter and comment
Rejects_QuoteOnly(c) == c.Delimiter = c.Quote

\* the test at the top of NewReader, made on the runes as configured
Rejects(c) == c.Delimiter = c.Quote \/ c.Delimiter = c.Comment

\* the configuration the constructed Reader holds: a zero quote becomes '"'
Stored(c) == [c EXCEPT !.Quote = IF @ = 0 THEN DQUOTE ELSE @]

NewReader ==
    /\ pc = "new"
    /\ IF Rejects(cfg)
       THEN /\ pc' = "rejected"
            /\ cfg' = cfg
       ELSE /\ pc' = "idle"
            /\ cfg' = Stored(cfg)
    /\ UNCHANGED <<field, record, err, inQuotes, endOfField, lastCharWasQuote,
                   currentRecord, currentRowNum, currentColNum, bytesRead,
                   src, calls, callStart, out, lastRet>>
    /\ UNCHANGED heap
    /\ UNCHANGED <<tbl, shared>>

\* ------------------------------------------------------------------ pools
\* recordPool.Get(): an array held by the pool, or a new one made by New
GetRecord ==
    \E id \in recordPool \cup {Len(arrays) + 1} :
        /\ recordArr' = id
        /\ recordPool' = recordPool \ {id}
        /\ arrays' = IF id > Len(arrays) THEN Append(arrays, << >>) ELSE arrays

\* the arrays after append(cr.record, str): the element after the slice's
\* last is overwritten in place (the capacity of 16 is never reached here)
Written(str) ==
    [arrays EXCEPT ![recordArr] =
        SubSeq(@, 1, Len(record)) \o <<str>>
            \o SubSeq(@, Len(record) + 2, Len(@))]

\* what the caller sees in the i-th slice it has kept
KeptRecord(i) == SubSeq(arrays[kept[i].arr], 1, kept[i].len)

\* -------------------------------------------------------------- ReadRecord
\* The consumer is followed until it holds more records than the source has
\* handed out bytes, and through MaxNoRecordCalls calls that return no record.
RowBudget == Len(consumed) + 1

\* entry of ReadRecord with the previous record slice put back into the pool
\* before the next one is taken from it
ReadRecord_Recycles ==
    /\ pc = "idle"
    /\ currentRowNum < RowBudget
    /\ calls - currentRowNum < MaxNoRecordCalls
    /\ calls' = calls + 1
    /\ IF err # "nil"
       THEN /\ lastRet' = "error"
            /\ UNCHANGED <<pc, field, record, currentColNum, callStart,
                           arrays, recordArr, recordPool>>
       ELSE /\ pc' = "loop"
            /\ field' = << >>
            /\ record' = << >>
            /\ \E id \in (recordPool \cup {recordArr, Len(arrays) + 1}) \ {0} :
                /\ recordArr' = id
                /\ recordPool' = (recordPool \cup {recordArr}) \ {0, id}
                /\ arrays' = IF id > Len(arrays) THEN Append(arrays, << >>)
                             ELSE arrays
            /\ currentColNum' = 0
            /\ callStart' = Len(consumed)
            /\ UNCHANGED lastRet
    /\ UNCHANGED kept
    /\ UNCHANGED <<cfg, err, inQuotes, endOfField, lastCharWasQuote,
                   currentRecord, currentRowNum, bytesRead, src, out>>
    /\ UNCHANGED <<tbl, shared>>

\* entry of ReadRecord without the test of the stored error
ReadRecord_NoStoredError ==
    /\ pc = "idle"
    /\ currentRowNum < RowBudget
    /\ calls - currentRowNum < MaxNoRecordCalls
    /\ calls' = calls + 1
    /\ pc' = "loop"
    /\ field' = << >>
    /\ record' = << >>
    /\ currentColNum' = 0
    /\ callStart' = Len(consumed)
    /\ UNCHANGED <<cfg, err, inQuotes, endOfField, lastCharWasQuote,
                   currentRecord, currentRowNum, bytesRead, src, out, lastRet>>
    /\ GetRecord
    /\ UNCHANGED kept
    /\ UNCHANGED <<tbl, shared>>

\* entry of ReadRecord: the sticky error, else the reset of the call's state
ReadRecord ==
    /\ pc = "idle"
    /\ currentRowNum < RowBudget
    /\ calls - currentRowNum < MaxNoRecordCalls
    /\ calls' = calls + 1
    /\ IF err # "nil"
       THEN /\ lastRet' = "error"
            /\ UNCHANGED <<pc, field, record, currentColNum, callStart,
                           arrays, recordArr, recordPool>>
       ELSE /\ pc' = "loop"
            /\ field' = << >>
            /\ record' = << >>
            /\ GetRecord
            /\ currentColNum' = 0
            /\ callStart' = Len(consumed)
            /\ UNCHANGED lastRet
    /\ UNCHANGED kept
    /\ UNCHANGED <<cfg, err, inQuotes, endOfField, lastCharWasQuote,
                   currentRecord, currentRowNum, bytesRead, src, out>>
    /\ UNCHANGED <<tbl, shared>>

\* return cr.record, nil with the row counter left alone
ReturnRecord_NoCount(rec) ==
    /\ currentRecord' = rec
    /\ currentRowNum' = currentRowNum
    /\ record' = rec
    /\ out' = Append(out, rec)
    /\ lastRet' = "record"
    /\ pc' = "idle"
    /\ kept' = Append(kept, [arr |-> recordArr, len |-> Len(rec)])

\* return cr.record, nil
ReturnRecord(rec) ==
    /\ currentRecord' = rec
    /\ currentRowNum' = currentRowNum + 1
    /\ record' = rec
    /\ out' = Append(out, rec)
    /\ lastRet' = "record"
    /\ pc' = "idle"
    /\ kept' = Append(kept, [arr |-> recordArr, len |-> Len(rec)])

\* Branch with CR left out of the end-of-record case
Branch_CRIsData(b) ==
    IF cfg.Comment # 0 /\ b = ToByte(cfg.Comment) /\ ~inQuotes
       /\ Len(field) = 0 /\ Len(record) = 0
    THEN "comment"
    ELSE IF b = ToByte(cfg.Delimiter) /\ ~inQuotes THEN "delimiter"
    ELSE IF b = ToByte(cfg.Quote)
         THEN IF ~inQuotes
              THEN IF Len(field) = 0 THEN "openQuote" ELSE "fallthrough"
              ELSE "quoted"
    ELSE IF b = LF /\ ~inQuotes THEN "endRecord"
    ELSE "default"

\* which arm of the loop body byte b takes: the comment test, then the
\* switch's cases in order
Branch(b) ==
    IF cfg.Comment # 0 /\ b = ToByte(cfg.Comment) /\ ~inQuotes
       /\ Len(field) = 0 /\ Len(record) = 0
    THEN "comment"
    ELSE IF b = ToByte(cfg.Delimiter) /\ ~inQuotes THEN "delimiter"
    ELSE IF b = ToByte(cfg.Quote)
         THEN IF ~inQuotes
              THEN IF Len(field) = 0 THEN "openQuote" ELSE "fallthrough"
              ELSE "quoted"
    ELSE IF (b = LF \/ b = CR) /\ ~inQuotes THEN "endRecord"
    ELSE "default"

\* ReadByte answers io.EOF and the unfinished record is dropped
AtEOF_DropsRecord ==
    /\ pc = "loop"
    /\ \E r \in ReadByte :
        /\ r.k = "eof"
        /\ Took(r)
    /\ lastRet' = "eof"
    /\ pc' = "idle"
    /\ field' = << >>
    /\ UNCHANGED <<cfg, record, err, inQuotes, endOfField, lastCharWasQuote,
                   currentRecord, currentRowNum, currentColNum, bytesRead,
                   calls, callStart, out>>
    /\ UNCHANGED heap
    /\ UNCHANGED <<tbl, shared>>

\* ReadByte answers io.EOF and the record is returned even when it is empty
AtEOF_ReturnsEmpty ==
    /\ pc = "loop"
    /\ \E r \in ReadByte :
        /\ r.k = "eof"
        /\ Took(r)
        /\ LET rec == IF Len(field) > 0 \/ endOfField \/ inQuotes
                      THEN Append(record, commitField(field)) ELSE record
           IN  ReturnRecord(rec)
        /\ field' = << >>
    /\ UNCHANGED <<cfg, err, inQuotes, endOfField, lastCharWasQuote,
                   currentColNum, bytesRead, calls, callStart>>
    /\ arrays' = IF Len(field) > 0 \/ endOfField \/ inQuotes
                 THEN Written(commitField(field)) ELSE arrays
    /\ UNCHANGED <<recordArr, recordPool>>
    /\ UNCHANGED <<tbl, shared>>

\* ReadByte answers io.EOF
AtEOF ==
    /\ pc = "loop"
    /\ \E r \in ReadByte :
        /\ r.k = "eof"
        /\ Took(r)
        /\ LET rec == IF Len(field) > 0 \/ endOfField \/ inQuotes
                      THEN Append(record, commitField(field)) ELSE record
           IN  IF Len(rec) = 0
               THEN /\ lastRet' = "eof"
                    /\ pc' = "idle"
                    /\ record' = rec
                    /\ UNCHANGED <<currentRecord, currentRowNum, out, kept>>
               ELSE ReturnRecord(rec)
        /\ field' = << >>
    /\ UNCHANGED <<cfg, err, inQuotes, endOfField, lastCharWasQuote,
                   currentColNum, bytesRead, calls, callStart>>
    /\ arrays' = IF Len(field) > 0 \/ endOfField \/ inQuotes
                 THEN Written(commitField(field)) ELSE arrays
    /\ UNCHANGED <<recordArr, recordPool>>
    /\ UNCHANGED <<tbl, shared>>

\* ReadByte answers another error: it is stored and returned
ReadError ==
    /\ pc = "loop"
    /\ \E r \in ReadByte :
        /\ r.k = "err"
        /\ Took(r)
    /\ err' = "ioerr"
    /\ lastRet' = "error"
    /\ pc' = "idle"
    /\ UNCHANGED <<cfg, field, record, inQuotes, endOfField, lastCharWasQuote,
                   currentRecord, currentRowNum, currentColNum, bytesRead,
                   calls, callStart, out>>
    /\ UNCHANGED heap
    /\ UNCHANGED <<tbl, shared>>

\* the comment character where a comment may start: enter the skip loop
StartComment ==
    /\ pc = "loop"
    /\ \E r \in ReadByte :
        /\ r.k = "byte"
        /\ Branch(r.b) = "comment"
        /\ Took(r)
    /\ bytesRead' = bytesRead + 1
    /\ pc' = "comment"
    /\ UNCHANGED <<cfg, field, record, err, inQuotes, endOfField,
                   lastCharWasQuote, currentRecord, currentRowNum,
                   currentColNum, calls, callStart, out, lastRet>>
    /\ UNCHANGED heap
    /\ UNCHANGED <<tbl, shared>>

\* the skip loop without the lookahead that takes the LF of a CRLF
SkipComment_NoCRLF ==
    /\ pc = "comment"
    /\ \E r \in ReadByte :
        /\ Took(r)
        /\ pc' = IF r.k = "byte" /\ r.b \notin {LF, CR} THEN "comment"
                 ELSE "loop"
    /\ UNCHANGED <<rdr, calls, callStart, out, lastRet>>
    /\ UNCHANGED heap
    /\ UNCHANGED <<tbl, shared>>

\* one iteration of the skip loop
SkipComment ==
    /\ pc = "comment"
    /\ \E r \in ReadByte :
        \/ /\ r.k # "byte"
           /\ Took(r)
           /\ pc' = "loop"
        \/ /\ r.k = "byte"
           /\ r.b = LF
           /\ Took(r)
           /\ pc' = "loop"
        \/ /\ r.k = "byte"
           /\ r.b = CR
           /\ \E p \in Peek : TookPeeked(r.b, p, p.b = LF)
           /\ pc' = "loop"
        \/ /\ r.k = "byte"
           /\ r.b \notin {LF, CR}
           /\ Took(r)
           /\ pc' = "comment"
    /\ UNCHANGED <<rdr, calls, callStart, out, lastRet>>
    /\ UNCHANGED heap
    /\ UNCHANGED <<tbl, shared>>

\* the delimiter case with an empty field buffer not committed
Delimiter_SkipsEmpty ==
    /\ pc = "loop"
    /\ \E r \in ReadByte :
        /\ r.k = "byte"
        /\ Branch(r.b) = "delimiter"
        /\ Took(r)
    /\ bytesRead' = bytesRead + 1
    /\ record' = IF field = << >> THEN record
                 ELSE Append(record, commitField(field))
    /\ field' = << >>
    /\ UNCHANGED <<pc, cfg, err, inQuotes, endOfField, lastCharWasQuote,
                   currentRecord, currentRowNum, currentColNum,
                   calls, callStart, out, lastRet>>
    /\ arrays' = IF field = << >> THEN arrays
                 ELSE Written(commitField(field))
    /\ UNCHANGED <<recordArr, recordPool, kept>>
    /\ UNCHANGED <<tbl, shared>>

\* the delimiter case with the column counter advanced
Delimiter_CountsColumn ==
    /\ pc = "loop"
    /\ \E r \in ReadByte :
        /\ r.k = "byte"
        /\ Branch(r.b) = "delimiter"
        /\ Took(r)
    /\ bytesRead' = bytesRead + 1
    /\ record' = Append(record, commitField(field))
    /\ field' = << >>
    /\ currentColNum' = currentColNum + 1
    /\ UNCHANGED <<pc, cfg, err, inQuotes, endOfField, lastCharWasQuote,
                   currentRecord, currentRowNum,
                   calls, callStart, out, lastRet>>
    /\ arrays' = Written(commitField(field))
    /\ UNCHANGED <<recordArr, recordPool, kept>>
    /\ UNCHANGED <<tbl, shared>>

\* case b == byte(cr.cfg.Delimiter) && !cr.inQuotes
Delimiter ==
    /\ pc = "loop"
    /\ \E r \in ReadByte :
        /\ r.k = "byte"
        /\ Branch(r.b) = "delimiter"
        /\ Took(r)
    /\ bytesRead' = bytesRead + 1
    /\ record' = Append(record, commitField(field))
    /\ field' = << >>
    /\ UNCHANGED <<pc, cfg, err, inQuotes, endOfField, lastCharWasQuote,
                   currentRecord, currentRowNum, currentColNum,
                   calls, callStart, out, lastRet>>
    /\ arrays' = Written(commitField(field))
    /\ UNCHANGED <<recordArr, recordPool, kept>>
    /\ UNCHANGED <<tbl, shared>>

\* the quote character outside quotes with an empty field buffer
OpenQuote ==
    /\ pc = "loop"
    /\ \E r \in ReadByte :
        /\ r.k = "byte"
        /\ Branch(r.b) = "openQuote"
        /\ Took(r)
    /\ bytesRead' = bytesRead + 1
    /\ inQuotes' = TRUE
    /\ UNCHANGED <<pc, cfg, field, record, err, endOfField, lastCharWasQuote,
                   currentRecord, currentRowNum, currentColNum,
                   calls, callStart, out, lastRet>>
    /\ UNCHANGED heap
    /\ UNCHANGED <<tbl, shared>>

\* the quote character inside quotes always taken as the closing quote
QuoteInQuotes_NoEscape ==
    /\ pc = "loop"
    /\ \E r \in ReadByte :
        /\ r.k = "byte"
        /\ Branch(r.b) = "quoted"
        /\ \E p \in Peek : TookPeeked(r.b, p, FALSE)
    /\ inQuotes' = FALSE
    /\ lastCharWasQuote' = TRUE
    /\ bytesRead' = bytesRead + 1
    /\ UNCHANGED <<pc, cfg, field, record, err, endOfField, currentRecord,
                   currentRowNum, currentColNum, calls, callStart, out,
                   lastRet>>
    /\ UNCHANGED heap
    /\ UNCHANGED <<tbl, shared>>

\* the quote character inside quotes: Peek(1) decides escaped or closing
QuoteInQuotes ==
    /\ pc = "loop"
    /\ \E r \in ReadByte :
        /\ r.k = "byte"
        /\ Branch(r.b) = "quoted"
        /\ \E p \in Peek :
            IF p.k = "byte" /\ p.b = ToByte(cfg.Quote)
            THEN /\ TookPeeked(r.b, p, TRUE)
                 /\ field' = Append(field, ToByte(cfg.Quote))
                 /\ UNCHANGED <<inQuotes, lastCharWasQuote>>
            ELSE /\ TookPeeked(r.b, p, FALSE)
                 /\ inQuotes' = FALSE
                 /\ lastCharWasQuote' = TRUE
                 /\ UNCHANGED field
    /\ bytesRead' = bytesRead + 1
    /\ UNCHANGED <<pc, cfg, record, err, endOfField, currentRecord,
                   currentRowNum, currentColNum, calls, callStart, out,
                   lastRet>>
    /\ UNCHANGED heap
    /\ UNCHANGED <<tbl, shared>>

\* the end-of-record case without the lookahead for the LF of a CRLF
EndOfRecord_NoLookahead(b) ==
    /\ Took([k |-> "byte", b |-> b])
    /\ bytesRead' = bytesRead + 1
    /\ ReturnRecord(Append(record, commitField(field)))
    /\ field' = << >>
    /\ UNCHANGED <<cfg, err, inQuotes, endOfField, lastCharWasQuote,
                   currentColNum, calls, callStart>>
    /\ arrays' = Written(commitField(field))
    /\ UNCHANGED <<recordArr, recordPool>>
    /\ UNCHANGED <<tbl, shared>>

\* body of the end-of-record case, entered for CR or LF outside quotes and,
\* by fallthrough, for a quote character met outside quotes in a started field
EndOfRecord(b) ==
    /\ IF b = CR
       THEN \E p \in Peek : TookPeeked(b, p, p.b = LF)
       ELSE Took([k |-> "byte", b |-> b])
    /\ bytesRead' = bytesRead + 1
    /\ ReturnRecord(Append(record, commitField(field)))
    /\ field' = << >>
    /\ UNCHANGED <<cfg, err, inQuotes, endOfField, lastCharWasQuote,
                   currentColNum, calls, callStart>>
    /\ arrays' = Written(commitField(field))
    /\ UNCHANGED <<recordArr, recordPool>>
    /\ UNCHANGED <<tbl, shared>>

\* the end-of-record case with a terminator on an empty line passed over
LineEnd_SkipsBlank ==
    /\ pc = "loop"
    /\ \E r \in ReadByte :
        /\ r.k = "byte"
        /\ Branch(r.b) = "endRecord"
        /\ IF field = << >> /\ record = << >>
           THEN /\ Took(r)
                /\ bytesRead' = bytesRead + 1
                /\ UNCHANGED <<pc, cfg, field, record, err, inQuotes,
                               endOfField, lastCharWasQuote, currentRecord,
                               currentRowNum, currentColNum, calls,
                               callStart, out, lastRet, heap, tbl,
                               shared>>
           ELSE EndOfRecord(r.b)

\* CR or LF outside quotes
LineEnd ==
    /\ pc = "loop"
    /\ \E r \in ReadByte :
        /\ r.k = "byte"
        /\ Branch(r.b) = "endRecord"
        /\ EndOfRecord(r.b)

QuoteFallthrough ==
    /\ pc = "loop"
    /\ \E r \in ReadByte :
        /\ r.k = "byte"
        /\ Branch(r.b) = "fallthrough"
        /\ EndOfRecord(r.b)

\* default: a regular character, or skipped leading whitespace
Regular ==
    /\ pc = "loop"
    /\ \E r \in ReadByte :
        /\ r.k = "byte"
        /\ Branch(r.b) = "default"
        /\ Took(r)
        /\ IF cfg.TrimLeading /\ Len(field) = 0 /\ ~inQuotes
              /\ (r.b = SP \/ r.b = TAB)
           THEN UNCHANGED <<field, lastCharWasQuote>>
           ELSE /\ field' = Append(field, r.b)
                /\ lastCharWasQuote' = FALSE
    /\ bytesRead' = bytesRead + 1
    /\ UNCHANGED <<pc, cfg, record, err, inQuotes, endOfField, currentRecord,
                   currentRowNum, currentColNum, calls, callStart, out,
                   lastRet>>
    /\ UNCHANGED heap
    /\ UNCHANGED <<tbl, shared>>

\* ---------------------------------------------------------------- accessors
CurrentRow == currentRowNum
CurrentColumn == currentColNum + 1
BytesRead == bytesRead

\* ------------------------------------------------------------ specification
\* the reader before NewReader, all but its configuration
ReaderAtRest ==
    /\ pc = "new"
    /\ field = << >>
    /\ record = << >>
    /\ err = "nil"
    /\ inQuotes = FALSE
    /\ endOfField = FALSE
    /\ lastCharWasQuote = FALSE
    /\ currentRecord = << >>
    /\ currentRowNum = 0
    /\ currentColNum = 0
    /\ bytesRead = 0
    /\ consumed = << >>
    /\ ahead = << >>
    /\ srcEOFs = 0
    /\ srcErrs = 0
    /\ arrays = << >>
    /\ recordArr = 0
    /\ recordPool = {}
    /\ kept = << >>
    /\ calls = 0
    /\ callStart = 0
    /\ out = << >>
    /\ lastRet = "none"

\* no table made
TableAtRest ==
    /\ tpc = "none"
    /\ table = [Headers |-> << >>, Rows |-> << >>, types |-> << >>]

\* no reader on the shared pools
SharedAtRest ==
    /\ readers = << >>
    /\ bufs = << >>
    /\ fieldPool = {}

Init ==
    /\ cfg \in Configs
    /\ ReaderAtRest
    /\ TableAtRest
    /\ SharedAtRest

Next ==
    \/ NewReader
    \/ ReadRecord
    \/ AtEOF
    \/ ReadError
    \/ StartComment
    \/ SkipComment
    \/ Delimiter
    \/ OpenQuote
    \/ QuoteInQuotes
    \/ LineEnd
    \/ QuoteFallthrough
    \/ Regular

Spec == Init /\ [][Next]_vars

TypeOK ==
    /\ pc \in {"new", "rejected", "idle", "loop", "comment"}
    /\ Len(consumed) + Len(ahead) <= MaxLen
    /\ Len(ahead) <= 1
    /\ err \in {"nil", "ioerr"}
    /\ lastRet \in {"none", "record", "eof", "error"}

\* ------------------------------------------------------------------ Table
\* ColumnType
TypeString == 0
TypeInteger == 1
TypeFloat == 2
TypeBoolean == 3
TypeNull == 4

\* rows added to one table
MaxRows == 2

\* cell values, one or two for each way DetectType can go
NullWords == {"", "NULL"}
BoolWords == {"true"}
IntWords == {"7"}
FloatWords == {"1.5"}
OtherWords == {"abc"}
Values == NullWords \cup BoolWords \cup IntWords \cup FloatWords \cup OtherWords

\* the headers of the tables made
HeaderLists == {<<"h">>, <<"h", "k">>}

\* DetectType: the tests in the order of the code; ParseInt accepts the
\* IntWords, ParseFloat those and the FloatWords
DetectType(val) ==
    IF val \in NullWords THEN TypeNull
    ELSE IF val \in BoolWords THEN TypeBoolean
    ELSE IF val \in IntWords THEN TypeInteger
    ELSE IF val \in IntWords \cup FloatWords THEN TypeFloat
    ELSE TypeString

\* NewTable: types is make([]ColumnType, len(headers)), every element the
\* zero ColumnType
NewTable(headers) ==
    /\ tpc = "none"
    /\ tpc' = "ready"
    /\ table' = [Headers |-> headers,
                 Rows |-> << >>,
                 types |-> [i \in 1..Len(headers) |-> 0]]
    /\ UNCHANGED <<csv, shared>>

\* updateTypes: the types after row
updateTypes(row) ==
    [i \in 1..Len(row) |->
        IF table.types[i] = TypeNull THEN DetectType(row[i])
        ELSE IF DetectType(row[i]) # table.types[i] THEN TypeString
        ELSE table.types[i]]

\* AddRow: a row of another length than the headers is refused
AddRow(row) ==
    /\ tpc = "ready"
    /\ Len(table.Rows) < MaxRows
    /\ IF Len(row) # Len(table.Headers)
       THEN UNCHANGED table
       ELSE table' = [table EXCEPT !.Rows = Append(@, row),
                                   !.types = updateTypes(row)]
    /\ UNCHANGED <<tpc, csv, shared>>

\* the index map of NewTable: a header's last position
Index(header) ==
    CHOOSE i \in 1..Len(table.Headers) :
        /\ table.Headers[i] = header
        /\ \A j \in 1..Len(table.Headers) : table.Headers[j] = header => j <= i

\* GetColumnType: the type NewTable and updateTypes have left for the column
GetColumnType(header) ==
    IF \E i \in 1..Len(table.Headers) : table.Headers[i] = header
    THEN table.types[Index(header)]
    ELSE TypeString

TableInit ==
    /\ cfg = [Delimiter |-> COMMA, Quote |-> DQUOTE, Comment |-> 0,
              TrimLeading |-> FALSE, Null |-> << >>]
    /\ ReaderAtRest
    /\ TableAtRest
    /\ SharedAtRest

TableNext ==
    \/ \E h \in HeaderLists : NewTable(h)
    \/ \E n \in 1..2 : \E row \in [1..n -> Values] : AddRow(row)

TableSpec == TableInit /\ [][TableNext]_vars

\* ----------------------------------------------------------- shared pools
\* Several readers, each on its own goroutine and its own source, that share
\* fieldPool and recordPool. One step is one access to a pool or one byte of
\* a reader's own work; the steps of different readers interleave freely.
\* The readers run under DefaultConfig on input without quote characters, so
\* a byte is a delimiter, a line terminator or field content. recordPool is
\* never given anything back, so each call gets a record slice of its own and
\* the record is kept by value.
MaxSharedLen == 2
Readers == {1, 2}

\* the content byte of reader r's input
Letter(r) == IF r = 1 THEN LetterA ELSE LetterB
SharedAlphabet(r) == {Letter(r), COMMA, LF}

\* a reader before its first call: cr.field is a nil slice
FreshReader ==
    [rpc |-> "idle", taken |-> << >>, eof |-> FALSE,
     field |-> [buf |-> 0, len |-> 0],
     old |-> 0, returning |-> FALSE, record |-> << >>, outs |-> << >>]

\* the bytes of the slice [buf, len]
Bytes(sl) == IF sl.buf = 0 THEN << >> ELSE SubSeq(bufs[sl.buf], 1, sl.len)

\* entry of ReadRecord: cr.field[:0] and a record slice from recordPool
SharedCall(r) ==
    /\ readers[r].rpc = "idle"
    /\ readers' = [readers EXCEPT ![r].rpc = "loop",
                                  ![r].field.len = 0,
                                  ![r].record = << >>]
    /\ UNCHANGED <<bufs, fieldPool, csv, tbl>>

\* cr.field = append(cr.field, b): a nil slice gets an array of its own,
\* another slice is written in place (its capacity is not reached here)
SharedAppend(r) ==
    /\ readers[r].rpc = "loop"
    /\ ~readers[r].eof
    /\ Len(readers[r].taken) < MaxSharedLen
    /\ \E b \in SharedAlphabet(r) :
        /\ Branch(b) = "default"
        /\ LET f == readers[r].field
           IN  IF f.buf = 0
               THEN /\ bufs' = Append(bufs, <<b>>)
                    /\ readers' = [readers EXCEPT
                          ![r].taken = Append(@, b),
                          ![r].field = [buf |-> Len(bufs) + 1, len |-> 1]]
               ELSE /\ bufs' = [bufs EXCEPT ![f.buf] =
                          SubSeq(@, 1, f.len) \o <<b>>
                              \o SubSeq(@, f.len + 2, Len(@))]
                    /\ readers' = [readers EXCEPT
                          ![r].taken = Append(@, b),
                          ![r].field.len = f.len + 1]
    /\ UNCHANGED <<fieldPool, csv, tbl>>

\* commitField up to the append to the record: buf := cr.field,
\* str := string(buf) (a copy), trimming, null substitution, append
SharedCommit(r) ==
    /\ readers[r].rpc = "loop"
    /\ ~readers[r].eof
    /\ Len(readers[r].taken) < MaxSharedLen
    /\ \E b \in SharedAlphabet(r) :
        /\ Branch(b) \in {"delimiter", "endRecord"}
        /\ readers' = [readers EXCEPT
              ![r].taken = Append(@, b),
              ![r].record = Append(@, commitField(Bytes(readers[r].field))),
              ![r].old = readers[r].field.buf,
              ![r].returning = (Branch(b) = "endRecord"),
              ![r].rpc = "get"]
    /\ UNCHANGED <<bufs, fieldPool, csv, tbl>>

\* ReadByte answers io.EOF: commitField when the field buffer is not empty,
\* then the record if it has a field, else io.EOF
SharedEOF(r) ==
    /\ readers[r].rpc = "loop"
    /\ IF readers[r].field.len > 0
       THEN readers' = [readers EXCEPT
              ![r].eof = TRUE,
              ![r].record = Append(@, commitField(Bytes(readers[r].field))),
              ![r].old = readers[r].field.buf,
              ![r].returning = TRUE,
              ![r].rpc = "get"]
       ELSE IF readers[r].record = << >>
       THEN readers' = [readers EXCEPT ![r].eof = TRUE, ![r].rpc = "done"]
       ELSE readers' = [readers EXCEPT ![r].eof = TRUE, ![r].rpc = "idle",
                                       ![r].outs = Append(@, readers[r].record)]
    /\ UNCHANGED <<bufs, fieldPool, csv, tbl>>

\* commitField without the new buffer: cr.field keeps the array it puts back
SharedGet_KeepsBuffer(r) ==
    /\ readers[r].rpc = "get"
    /\ readers' = [readers EXCEPT ![r].field.len = 0, ![r].rpc = "put"]
    /\ UNCHANGED <<bufs, fieldPool, csv, tbl>>

\* cr.field = fieldPool.Get().([]byte)[:0]: an array the pool holds, a nil
\* slice that was put into it, or a new array made by New
SharedGet(r) ==
    /\ readers[r].rpc = "get"
    /\ \E id \in fieldPool \cup {Len(bufs) + 1} :
        /\ readers' = [readers EXCEPT ![r].field = [buf |-> id, len |-> 0],
                                      ![r].rpc = "put"]
        /\ fieldPool' = IF id = 0 THEN fieldPool ELSE fieldPool \ {id}
        /\ bufs' = IF id > Len(bufs) THEN Append(bufs, << >>) ELSE bufs
    /\ UNCHANGED <<csv, tbl>>

\* the deferred fieldPool.Put(buf[:0]), then the return from commitField:
\* back to the loop, or out of ReadRecord with the record
SharedPut(r) ==
    /\ readers[r].rpc = "put"
    /\ fieldPool' = fieldPool \cup {readers[r].old}
    /\ readers' = [readers EXCEPT
          ![r].old = 0,
          ![r].rpc = IF readers[r].returning THEN "idle" ELSE "loop",
          ![r].outs = IF readers[r].returning
                      THEN Append(@, readers[r].record) ELSE @]
    /\ UNCHANGED <<bufs, csv, tbl>>

SharedInit ==
    /\ cfg = [Delimiter |-> COMMA, Quote |-> DQUOTE, Comment |-> 0,
              TrimLeading |-> FALSE, Null |-> << >>]
    /\ ReaderAtRest
    /\ TableAtRest
    /\ readers = [r \in Readers |-> FreshReader]
    /\ bufs = << >>
    /\ fieldPool = {}

SharedNext ==
    \E r \in Readers :
        \/ SharedCall(r)
        \/ SharedAppend(r)
        \/ SharedCommit(r)
        \/ SharedEOF(r)
        \/ SharedGet(r)
        \/ SharedPut(r)

SharedSpec == SharedInit /\ [][SharedNext]_vars

\* ------------------------------------------------------ reading the runs
QuoteB == ToByte(cfg.Quote)
DelimB == ToByte(cfg.Delimiter)
CommentB == ToByte(cfg.Comment)
NoByte == 0 - 1

Last(s) == s[Len(s)]
Has(s, x) == \E i \in 1..Len(s) : s[i] = x

\* the step takes a byte in ReadRecord's loop; ReadB is that byte
TakesByte == pc = "loop" /\ Len(consumed') > Len(consumed)
ReadB == consumed'[Len(consumed) + 1]
\* what the source answered to the lookahead after ReadB: the following byte,
\* or NoByte for end of input and for a failed or absent lookahead
Following ==
    IF Len(consumed') >= Len(consumed) + 2 THEN consumed'[Len(consumed) + 2]
    ELSE IF ahead' # << >> THEN ahead'[1] ELSE NoByte

\* the step took a CR and looked one byte ahead: an LF was taken with the CR,
\* another byte was left in the buffer, or the source answered end of input
\* or an error
MergesCRLF ==
    \/ Len(consumed') = Len(consumed) + 2 /\ Last(consumed') = LF
    \/ /\ Len(consumed') = Len(consumed) + 1
       /\ \/ ahead' # << >> /\ ahead'[1] # LF
          \/ ahead' = << >> /\ (srcEOF' \/ srcErrs' > srcErrs)

\* the step finalizes one field; Finalized is the value added to the record
Finalizes == pc = "loop" /\ Len(record') = Len(record) + 1
Finalized == record'[Len(record')]

\* the next byte is the first of a physical line
LineStart == consumed = << >> \/ Last(consumed) \in {CR, LF}

\* the consumer has been handed end-of-stream
Done == pc = "idle" /\ lastRet = "eof"

\* the default delimiter and quote of DefaultConfig
StdDialect == cfg.Delimiter = COMMA /\ cfg.Quote = DQUOTE

\* -------------------------------------------------------------------- C1
\* C1: a consumer that calls ReadRecord repeatedly on a finite input reaches
\* end-of-stream. The source holds finitely many bytes, so the loop ends
\* exactly when no call hands back a record without taking a byte from the
\* source: a finished call that took no byte did not return a record.
\* (Stated for the default delimiter and quote.)
C1_EveryRecordTakesAByte ==
    (pc = "idle" /\ lastRet = "record" /\ StdDialect)
        => callStart < Len(consumed)

\* -------------------------------------------------------------------- C2
\* C2: a quote character read outside quoted mode into a started field is
\* appended as an ordinary character; it neither enters quoted mode nor ends
\* the field or the record. (Stated for the default delimiter and quote.)
C2_QuoteInsideFieldIsOrdinary ==
    [][(TakesByte /\ ~inQuotes /\ Len(field) > 0 /\ ReadB = QuoteB
        /\ StdDialect)
         => (/\ field' = Append(field, QuoteB)
             /\ ~inQuotes'
             /\ record' = record
             /\ pc' = "loop")]_vars

\* -------------------------------------------------------------------- C3
\* C3: with TrimLeading the only bytes removed are spaces and tabs before the
\* first other byte of an unquoted field. Those are dropped byte by byte and
\* never reach the field buffer, so whatever the buffer holds when the field
\* is finalized (whitespace read inside quotes included) is kept. (Stated for
\* the default delimiter and quote and for fields whose quotes are closed.)
C3_TrimKeepsBufferedWhitespace ==
    [][(Finalizes /\ cfg.TrimLeading /\ cfg.Null = << >> /\ ~inQuotes
        /\ StdDialect)
         => Finalized = field]_vars

\* -------------------------------------------------------------------- C4
\* the quoted form of value v: inner quotes doubled, wrapped in quotes
RECURSIVE Doubled(_)
Doubled(v) ==
    IF v = << >> THEN << >>
    ELSE (IF v[1] = QuoteB THEN <<QuoteB, QuoteB>> ELSE <<v[1]>>)
         \o Doubled(Tail(v))
Quoted(v) == <<QuoteB>> \o Doubled(v) \o <<QuoteB>>

\* field values that need quoting and whose quoted form fits the source
NeedsQuoting(v) == \E i \in 1..Len(v) : v[i] \in {DelimB, QuoteB, CR, LF}
FieldValues ==
    {v \in UNION {[1..n -> Alphabet] : n \in 1..(MaxLen - 2)} : NeedsQuoting(v)}

\* the input was pre, the quoted form of v, post; the reader returned v as
\* field number Len(pre) + 1 of the first record
RoundTrip(pre, v, post) ==
    consumed = pre \o Quoted(v) \o post
        => /\ Len(out) >= 1
           /\ Len(out[1]) > Len(pre)
           /\ out[1][Len(pre) + 1] = v

\* C4: quote-then-parse round trip. With no trimming and no null sentinel, a
\* value that contains delimiter, quote, CR or LF bytes, quoted and fed to
\* the reader alone, as the last field after an empty one, or as the first
\* field before a delimiter or a line terminator, comes back byte for byte.
C4_QuoteParseRoundTrip ==
    (Done /\ srcErrs = 0 /\ ~cfg.TrimLeading /\ cfg.Null = << >>
     /\ consumed # << >>)
        => \A v \in FieldValues :
            /\ RoundTrip(<< >>, v, << >>)
            /\ RoundTrip(<<DelimB>>, v, << >>)
            /\ RoundTrip(<< >>, v, <<DelimB>>)
            /\ RoundTrip(<< >>, v, <<LF>>)

\* the dialects whose delimiter, quote and comment bytes are pairwise distinct
DistinctBytes ==
    /\ DelimB # QuoteB
    /\ cfg.Comment # 0 => (CommentB # QuoteB /\ CommentB # DelimB)

\* The round trip of C4 for the dialects with pairwise distinct bytes.
RoundTripDistinct == DistinctBytes => C4_QuoteParseRoundTrip

\* -------------------------------------------------------------------- C5
\* C5: inside a quoted field a quote character followed by a second one adds
\* exactly one quote character to the field, takes both bytes and stays in
\* quoted mode; followed by anything else, by end of input or by a lookahead
\* that failed, it ends quoted mode and adds nothing.
C5_DoubledQuote ==
    [][(TakesByte /\ inQuotes /\ ReadB = QuoteB)
         => /\ record' = record
            /\ pc' = "loop"
            /\ IF Following = QuoteB
               THEN /\ field' = Append(field, QuoteB)
                    /\ inQuotes'
                    /\ Len(consumed') = Len(consumed) + 2
               ELSE /\ field' = field
                    /\ ~inQuotes'
                    /\ Len(consumed') = Len(consumed) + 1]_vars

\* a doubled quote decoded to one quote character, then the quotes closed
C5_Witness ==
    /\ pc = "loop"
    /\ StdDialect
    /\ srcErrs = 0
    /\ consumed = <<DQUOTE, DQUOTE, DQUOTE, DQUOTE>>
    /\ field = <<DQUOTE>>
    /\ ~inQuotes

\* -------------------------------------------------------------------- C6
NoTerminator(f) == ~Has(f, CR) /\ ~Has(f, LF)

\* no field returned from a quote-free input holds a CR or LF byte
C6_NoTerminatorInField ==
    ~Has(consumed, QuoteB)
        => \A i \in 1..Len(out) : \A j \in 1..Len(out[i]) :
               NoTerminator(out[i][j])

\* CR, LF and CRLF outside quotes end the record: the record is returned with
\* the field finalized, and an LF that follows the CR is taken with it
C6_TerminatorEndsRecord ==
    (TakesByte /\ ~inQuotes /\ ReadB \in {CR, LF})
        => /\ pc' = "idle"
           /\ lastRet' = "record"
           /\ Len(out') = Len(out) + 1
           /\ Len(Last(out')) = Len(record) + 1
           /\ currentRowNum' = currentRowNum + 1
           /\ IF ReadB = CR THEN MergesCRLF
              ELSE Len(consumed') = Len(consumed) + 1

\* C6: outside quotes each of CR, LF and CRLF ends the current record, and no
\* field of a record read from input without quote characters contains a CR
\* or LF byte.
C6_Terminators ==
    []C6_NoTerminatorInField /\ [][C6_TerminatorEndsRecord]_vars

\* a,CRLF read as one record of the two fields a and empty
C6_Witness ==
    /\ pc = "idle"
    /\ StdDialect
    /\ consumed = <<LetterA, COMMA, CR, LF>>
    /\ out = << <<<<LetterA>>, << >>>> >>

\* -------------------------------------------------------------------- C7
\* C7: the comment character starts a comment only as the very first byte of
\* a physical line; anywhere else it is literal field content and the rest
\* of the line is kept. (Stated for the default delimiter and quote and a
\* comment character that is neither of them.)
C7_CommentOnlyAtLineStart ==
    [][(TakesByte /\ cfg.Comment # 0 /\ ReadB = CommentB /\ ~LineStart
        /\ StdDialect /\ CommentB # QuoteB)
         => (/\ pc' = "loop"
             /\ field' = Append(field, CommentB)
             /\ record' = record)]_vars

\* -------------------------------------------------------------------- C8
\* the step starts a comment: nothing of the call's result changes
StartsComment ==
    /\ pc' = "comment"
    /\ field' = field /\ record' = record
    /\ out' = out /\ lastRet' = lastRet
    /\ currentRowNum' = currentRowNum
    /\ callStart' = callStart

ReadBInSkip ==
    IF Len(consumed') > Len(consumed) THEN consumed'[Len(consumed) + 1]
    ELSE NoByte

\* one step of the skip loop: the call's state is untouched; the loop is left
\* exactly when a CR or LF was taken or the source answered end of input or
\* an error, an LF after the CR is taken with it, and the call then goes on
\* with an empty field and an empty record
SkipsComment ==
    /\ UNCHANGED <<field, record, out, lastRet, currentRowNum, callStart,
                   inQuotes>>
    /\ field = << >> /\ record = << >>
    /\ pc' \in {"comment", "loop"}
    /\ pc' = "loop" <=> \/ Len(consumed') = Len(consumed)
                        \/ ReadBInSkip \in {CR, LF}
    /\ ReadBInSkip = CR => MergesCRLF

BeforeNull == IF cfg.TrimLeading THEN TrimLeft(field) ELSE field

\* C9: with a null sentinel configured, a finalized value equal to the
\* sentinel is returned as the empty string and every other value, such as
\* one that holds the sentinel as a proper substring, is returned unchanged;
\* the fields finalized earlier stay as they are.
C9_NullSentinel ==
    [][(Finalizes /\ cfg.Null # << >>)
         => /\ Finalized = IF BeforeNull = cfg.Null THEN << >> ELSE BeforeNull
            /\ SubSeq(record', 1, Len(record)) = record]_vars

\* a,aa with sentinel a: the first field becomes empty, the second is kept
C9_Witness ==
    /\ Done
    /\ StdDialect
    /\ cfg.Null = <<LetterA>>
    /\ consumed = <<LetterA, COMMA, LetterA, LetterA>>
    /\ out = << << << >>, <<LetterA, LetterA>> >> >>

\* ------------------------------------------------------------------- C10
\* C10: bytes after the last record terminator are returned as one final
\* record before end-of-stream. Stated for inputs that hold no line
\* terminator at all, so that the whole input is the final line, that do not
\* start with the comment character, read with no trimming under the default
\* delimiter and quote.
C10_FinalLineReturned ==
    (/\ Done /\ srcErrs = 0
     /\ StdDialect /\ ~cfg.TrimLeading
     /\ consumed # << >>
     /\ NoTerminator(consumed)
     /\ ~(cfg.Comment # 0 /\ consumed[1] = CommentB))
        => Len(out) = 1

\* ------------------------------------------------------------------- C11
\* the source answers the read at the top of ReadRecord's loop with an error
MainReadFails == pc = "loop" /\ srcErrs' > srcErrs /\ consumed' = consumed

\* C11: when the source answers ReadRecord's read of the next byte with an
\* error other than end of stream, the call returns the error and no record
\* (the fields tokenized so far are not returned), and every later call
\* returns the stored error without reading from the source and without
\* changing the row counter.
C11_StickyError ==
    [][/\ MainReadFails
          => /\ pc' = "idle" /\ lastRet' = "error" /\ err' # "nil"
             /\ out' = out /\ currentRowNum' = currentRowNum
       /\ err # "nil"
          => /\ pc' = "idle" /\ lastRet' = "error" /\ err' = err
             /\ UNCHANGED <<src, out, currentRowNum>>]_vars

\* a, then the read fails: the field a is not returned, and a second call
\* has returned the error again
C11_Witness ==
    /\ pc = "idle"
    /\ StdDialect
    /\ err # "nil" /\ lastRet = "error"
    /\ consumed = <<LetterA, COMMA>>
    /\ record = << <<LetterA>> >>
    /\ out = << >>
    /\ srcErrs = 1
    /\ currentRowNum = 0
    /\ calls = 2

\* ------------------------------------------------------------------- C12
\* C12: once a call has returned end-of-stream, every later call returns
\* end-of-stream again and makes no further read on the source. (Stated for
\* the default delimiter and quote.)
C12_EndOfStreamIsSticky ==
    [][(lastRet = "eof" /\ StdDialect)
         => (lastRet' = "eof" /\ UNCHANGED src)]_vars

\* On a source that keeps answering end of stream, every call after one that
\* returned end-of-stream returns it again.
EndOfStreamAgain == [][lastRet = "eof" => lastRet' = "eof"]_vars

\* ------------------------------------------------------------------- C13
\* C13: NewReader returns an error and no reader whenever the configured
\* delimiter equals the configured quote or the configured comment
\* character; nothing is read and no ReadRecord call runs after that.
C13_CollidingDelimiterRejected ==
    /\ [][(pc = "new"
           /\ (cfg.Delimiter = cfg.Quote \/ cfg.Delimiter = cfg.Comment))
            => pc' = "rejected"]_vars
    /\ [](pc = "rejected" => (calls = 0 /\ consumed = << >> /\ out = << >>))
    /\ [][pc # "rejected"]_vars

\* a delimiter equal to the comment character and different from the quote
C13_Witness ==
    /\ pc = "rejected"
    /\ cfg.Delimiter = cfg.Comment
    /\ cfg.Delimiter # cfg.Quote

\* ------------------------------------------------------------------- C14
\* C14: every reader constructed with a comment character enabled has
\* delimiter, quote and comment pairwise distinct. (Stated for the default
\* delimiter and quote.)
C14_PairwiseDistinct ==
    (pc \notin {"new", "rejected"} /\ cfg.Comment # 0 /\ StdDialect)
        => /\ cfg.Delimiter # cfg.Quote
           /\ cfg.Delimiter # cfg.Comment
           /\ cfg.Quote # cfg.Comment

\* ------------------------------------------------------------------- C15
\* the configuration with the quote given as '"'
WithDefaultQuote == [cfg EXCEPT !.Quote = DQUOTE]

\* NewReader's outcome for the configuration at hand is its outcome for
\* WithDefaultQuote: both are rejected, or both yield a reader that holds the
\* same configuration (every later step depends on the configuration held
\* and on the source only)
SameAsDefaultQuote ==
    /\ pc' = IF Rejects(WithDefaultQuote) THEN "rejected" ELSE "idle"
    /\ pc' = "idle" => cfg' = Stored(WithDefaultQuote)

\* C15: a reader constructed with the quote left at zero behaves exactly like
\* one constructed with quote '"' and otherwise the same configuration.
C15_ZeroQuoteIsDefault ==
    [][(pc = "new" /\ cfg.Quote = 0) => SameAsDefaultQuote]_vars

\* The equivalence of C15 for every delimiter other than '"'.
ZeroQuoteIsDefaultOtherDelimiter ==
    [][(pc = "new" /\ cfg.Quote = 0 /\ cfg.Delimiter # DQUOTE)
         => SameAsDefaultQuote]_vars

\* ------------------------------------------------------------------- C16
\* the lines of input s after the bytes cur of the line at hand: a line ends
\* at CR, LF or CRLF (one terminator) or at the end of the input, and nothing
\* follows the last terminator
RECURSIVE Lines(_, _)
Lines(s, cur) ==
    IF s = << >> THEN (IF cur = << >> THEN << >> ELSE <<cur>>)
    ELSE IF s[1] = CR /\ Len(s) >= 2 /\ s[2] = LF
         THEN <<cur>> \o Lines(Tail(Tail(s)), << >>)
    ELSE IF s[1] \in {CR, LF} THEN <<cur>> \o Lines(Tail(s), << >>)
    ELSE Lines(Tail(s), Append(cur, s[1]))

\* the pieces of s between the occurrences of byte d
RECURSIVE SplitAt(_, _)
SplitAt(s, d) ==
    IF ~Has(s, d) THEN <<s>>
    ELSE LET i == CHOOSE k \in 1..Len(s) :
                      s[k] = d /\ \A j \in 1..(k - 1) : s[j] # d
         IN  <<SubSeq(s, 1, i - 1)>> \o SplitAt(SubSeq(s, i + 1, Len(s)), d)

\* the naive split of input s: at line terminators, then at the delimiter
NaiveSplit(s) ==
    LET ls == Lines(s, << >>)
    IN  [i \in 1..Len(ls) |-> SplitAt(ls[i], DelimB)]

\* C16: for an input that holds none of the quote, delimiter and comment
\* bytes, read with no trimming and no null sentinel from a source that
\* reports no read error, the records returned up to end-of-stream are the
\* naive split of the input, one single-field record for each line.
C16_NaiveSplit ==
    (/\ Done /\ srcErrs = 0
     /\ ~cfg.TrimLeading /\ cfg.Null = << >>
     /\ ~Has(consumed, QuoteB) /\ ~Has(consumed, DelimB)
     /\ cfg.Comment # 0 => ~Has(consumed, CommentB))
        => /\ out = NaiveSplit(consumed)
           /\ \A i \in 1..Len(out) : Len(out[i]) = 1

\* a blank line, then a line ended by CRLF: two single-field records
C16_Witness ==
    /\ Done
    /\ srcErrs = 0
    /\ StdDialect /\ ~cfg.TrimLeading /\ cfg.Null = << >>
    /\ consumed = <<LF, LetterA, CR, LF>>
    /\ out = << << << >> >>, << <<LetterA>> >> >>

\* ------------------------------------------------------------------- C17
\* the bytes of the line being read: what follows the last CR or LF taken
CurrentLine ==
    LET ends == {i \in 1..Len(consumed) : consumed[i] \in {CR, LF}}
        from == IF ends = {} THEN 0
                ELSE CHOOSE i \in ends : \A j \in ends : j <= i
    IN  SubSeq(consumed, from + 1, Len(consumed))

\* the number of bytes of s equal to d
Count(s, d) == Cardinality({i \in 1..Len(s) : s[i] = d})

\* C17: when the terminator of a line that holds no quote character is read
\* outside quotes (the source having reported no read error), the call
\* returns a record with one more field than the line has delimiter bytes:
\* the pieces of the line between its delimiters, in input order, each
\* finalized by commitField, so that leading, trailing and adjacent
\* delimiters give empty fields. This holds for every delimiter.
C17_DelimiterSplitsLine ==
    [][(TakesByte /\ ReadB \in {CR, LF} /\ ~inQuotes /\ srcErrs' = 0
        /\ ~Has(CurrentLine, QuoteB))
         => LET parts == SplitAt(CurrentLine, DelimB)
            IN  /\ lastRet' = "record" /\ pc' = "idle"
                /\ Len(out') = Len(out) + 1
                /\ Len(Last(out')) = Count(CurrentLine, DelimB) + 1
                /\ Last(out') =
                      [i \in 1..Len(parts) |-> commitField(parts[i])]]_vars

\* with '"' as the delimiter the line "a" has three fields
C17_Witness ==
    /\ pc = "idle"
    /\ cfg.Delimiter = DQUOTE /\ QuoteB # DQUOTE
    /\ consumed = <<DQUOTE, LetterA, DQUOTE, LF>>
    /\ out = << << << >>, <<LetterA>>, << >> >> >>

\* ------------------------------------------------------------------- C18
\* the step ends a call that returns no record, or skips comment bytes
NoRecordStep ==
    \/ pc # "idle" /\ pc' = "idle" /\ lastRet' \in {"eof", "error"}
    \/ pc = "idle" /\ pc' = "idle"
    \/ pc = "comment" \/ pc' = "comment"

\* C18: CurrentRow is the number of calls that have returned a record: 0
\* before the first record, one more with each returned record, and unchanged
\* by calls that return end-of-stream or an error and by skipped comment
\* lines.
C18_RowCounter ==
    /\ [](CurrentRow = Len(out))
    /\ [][/\ Len(out') > Len(out) => CurrentRow' = CurrentRow + 1
          /\ NoRecordStep => CurrentRow' = CurrentRow]_vars

\* a comment line, one record, then end-of-stream: the row counter is 1
C18_Witness ==
    /\ Done
    /\ StdDialect
    /\ cfg.Comment = HASH
    /\ consumed = <<HASH, LF, LetterA, LF>>
    /\ Len(out) = 1
    /\ calls = 2
    /\ CurrentRow = 1

\* ------------------------------------------------------------------- C19
\* C19: between calls BytesRead is the number of bytes the reader has taken
\* from its source, every taken byte counted. (Stated for the default
\* delimiter and quote.)
C19_BytesReadCountsAll ==
    (pc = "idle" /\ StdDialect) => BytesRead = Len(consumed)

\* ------------------------------------------------------------------- C20
\* C20: a record that ReadRecord has returned is not changed by any later
\* call: a caller that keeps every returned slice without copying sees in
\* each of them, at any later time, the fields it had when it was returned.
C20_KeptRecordsUnchanged ==
    /\ Len(kept) = Len(out)
    /\ \A i \in 1..Len(kept) : KeptRecord(i) = out[i]

\* two records kept, read to end-of-stream: they lie in different arrays and
\* the first still reads a
C20_Witness ==
    /\ Done
    /\ StdDialect
    /\ consumed = <<LetterA, LF, COMMA, LF>>
    /\ Len(kept) = 2
    /\ kept[1].arr # kept[2].arr
    /\ KeptRecord(1) = << <<LetterA>> >>
    /\ KeptRecord(2) = << << >>, << >> >>
\* ------------------------------------------------------------------- C22
\* input s with a CR put before every LF
RECURSIVE ToCRLF(_)
ToCRLF(s) ==
    IF s = << >> THEN << >>
    ELSE (IF s[1] = LF THEN <<CR, LF>> ELSE <<s[1]>>) \o ToCRLF(Tail(s))

\* the naive split of s with every field finalized by commitField
SplitRecords(s) ==
    LET recs == NaiveSplit(s)
    IN  [i \in 1..Len(recs) |->
            [j \in 1..Len(recs[i]) |-> commitField(recs[i][j])]]

\* a CR read outside quotes to whose lookahead the source answers LF ends one
\* record and takes both bytes, so that the next call starts after the LF
CRLFEndsOneRecord ==
    (TakesByte /\ ~inQuotes /\ ReadB = CR /\ Following = LF)
        => /\ consumed' = consumed \o <<CR, LF>>
           /\ ahead' = << >>
           /\ pc' = "idle" /\ lastRet' = "record"
           /\ Len(out') = Len(out) + 1

\* between calls, when the bytes taken so far end in a terminator and hold no
\* quote and no comment byte (the source having reported no read error), the
\* records returned are those of the split, in which CRLF is one terminator;
\* and input whose terminators are all LF has the same split as its CRLF form
SameRecordsWithCRLF ==
    (/\ pc = "idle" /\ srcErrs = 0
     /\ consumed # << >> /\ Last(consumed) \in {CR, LF}
     /\ ~Has(consumed, QuoteB)
     /\ cfg.Comment # 0 => ~Has(consumed, CommentB))
        => /\ out = SplitRecords(consumed)
           /\ ~Has(consumed, CR)
                 => SplitRecords(ToCRLF(consumed)) = SplitRecords(consumed)

\* C22: a CR immediately followed by an LF outside quotes ends exactly one
\* record, both bytes are consumed by the call that returns it and no empty
\* record appears between two CRLF-terminated lines; replacing every LF
\* terminator of a quote-free input by CRLF leaves the returned records
\* unchanged.
C22_CRLFIsOneTerminator ==
    [][CRLFEndsOneRecord]_vars /\ []SameRecordsWithCRLF

\* two CRLF-terminated blank lines: two records, none between them
C22_Witness ==
    /\ Done
    /\ srcErrs = 0
    /\ StdDialect
    /\ consumed = <<CR, LF, CR, LF>>
    /\ out = << << << >> >>, << << >> >> >>
\* ------------------------------------------------------------------- C23
\* C23: the reader never retries a failed read: a step in which the source
\* reports an error other than end of stream (to the read of the next byte,
\* to the read of a comment byte, or to a lookahead) ends the call with that
\* error, and the source is not read after that. (Stated for the default
\* delimiter and quote.)
C23_NoRetry ==
    [][/\ (srcErrs' > srcErrs /\ StdDialect)
          => (pc' = "idle" /\ lastRet' = "error")
       /\ (srcErrs > 0 /\ StdDialect) => UNCHANGED src]_vars

\* ------------------------------------------------------------------- C24
\* C24: appending one line terminator to an input that does not end in one
\* does not change the records returned before end-of-stream. The records of
\* the input with the terminator appended are those of its split
\* (SameRecordsWithCRLF), so the records of the input as it is are the same
\* split. (Stated for quote-free input without comment bytes, read with no
\* trimming and no null sentinel under the default delimiter and quote from a
\* source that reports no read error.)
C24_TerminatorAppended ==
    (/\ Done /\ srcErrs = 0
     /\ StdDialect /\ ~cfg.TrimLeading /\ cfg.Null = << >>
     /\ consumed # << >> /\ Last(consumed) \notin {CR, LF}
     /\ ~Has(consumed, QuoteB)
     /\ cfg.Comment # 0 => ~Has(consumed, CommentB))
        => out = SplitRecords(Append(consumed, LF))

\* ------------------------------------------------------------------- C25
\* the step ends a ReadRecord call
EndsCall ==
    /\ pc' = "idle"
    /\ pc \in {"loop", "comment"} \/ (pc = "idle" /\ calls' > calls)

\* C25: every ReadRecord call ends in one of two ways: with a record of at
\* least one field and no error, or with no record and an error (end of
\* stream or the source's error); a record without fields is never returned.
C25_RecordOrError ==
    [][EndsCall
         => \/ /\ lastRet' = "record"
               /\ Len(out') = Len(out) + 1
               /\ SubSeq(out', 1, Len(out)) = out
               /\ Len(Last(out')) >= 1
               /\ err' = "nil"
            \/ /\ lastRet' \in {"eof", "error"}
               /\ out' = out
               /\ lastRet' = "error" <=> err' # "nil"]_vars

\* a record, then a failed read: the second call returns the error alone
C25_Witness ==
    /\ pc = "idle"
    /\ StdDialect
    /\ consumed = <<LetterA, LF>>
    /\ out = << << <<LetterA>> >> >>
    /\ lastRet = "error"
    /\ calls = 2
\* ------------------------------------------------------------------- C26
\* C26: blank lines are not skipped: a line terminator read outside quotes at
\* the start of the input or directly after another terminator yields a
\* record of exactly one empty field and advances the row counter; the empty
\* input yields end-of-stream and no record.
C26_BlankLines ==
    /\ [][(TakesByte /\ ReadB \in {CR, LF} /\ LineStart /\ ~inQuotes)
            => /\ pc' = "idle" /\ lastRet' = "record"
               /\ out' = Append(out, << << >> >>)
               /\ CurrentRow' = CurrentRow + 1]_vars
    /\ []((Done /\ consumed = << >>) => (out = << >> /\ CurrentRow = 0))

\* a line, then two blank lines: three records
C26_Witness ==
    /\ pc = "idle"
    /\ StdDialect
    /\ srcErrs = 0
    /\ consumed = <<LetterA, LF, LF, CR>>
    /\ out = << << <<LetterA>> >>, << << >> >>, << << >> >> >>
    /\ CurrentRow = 3

\* ------------------------------------------------------------------- C27
\* C27: in every constructed reader the byte compared against as delimiter
\* differs from the byte compared against as quote, the zero quote having
\* been replaced by '"' and each rune cut to its low eight bits.
C27_DelimiterByteIsNotQuoteByte ==
    pc \notin {"new", "rejected"} => DelimB # QuoteB

AllDetectAs(i, T) ==
    /\ table.Rows # << >>
    /\ \A k \in 1..Len(table.Rows) : DetectType(table.Rows[k][i]) = T

\* C30: for a table made by NewTable and filled by successful AddRow calls,
\* GetColumnType reports the type detected from the column's values: when
\* every value added to a column detects as the same type T (integer, float
\* or boolean) the column's type is T.
C30_ColumnTypeDetected ==
    tpc = "ready"
        => \A i \in 1..Len(table.Headers) :
             \A T \in {TypeInteger, TypeFloat, TypeBoolean} :
                AllDetectAs(i, T) => GetColumnType(table.Headers[i]) = T

\* Whatever is added, GetColumnType answers TypeString for every column.
AlwaysTypeString ==
    tpc = "ready"
        => \A i \in 1..Len(table.Headers) :
               GetColumnType(table.Headers[i]) = TypeString
\* ------------------------------------------------------------------- C21
\* the arrays reader r holds: that of cr.field, and that of buf inside
\* commitField until it is put back
Held(r) == {readers[r].field.buf, readers[r].old} \ {0}

\* the records a reader returns for input s when it runs alone, f being the
\* field and rec the record at hand
RECURSIVE Alone(_, _, _)
Alone(s, f, rec) ==
    IF s = << >>
    THEN (IF f # << >> THEN <<Append(rec, commitField(f))>>
          ELSE IF rec # << >> THEN <<rec>> ELSE << >>)
    ELSE IF s[1] = COMMA
         THEN Alone(Tail(s), << >>, Append(rec, commitField(f)))
    ELSE IF s[1] = LF
         THEN <<Append(rec, commitField(f))>> \o Alone(Tail(s), << >>, << >>)
    ELSE Alone(Tail(s), Append(f, s[1]), rec)

\* every byte of every field reader r has finalized is a byte of its input
OwnBytes(r) ==
    \A rec \in {readers[r].record}
               \cup {readers[r].outs[i] : i \in 1..Len(readers[r].outs)} :
        \A j \in 1..Len(rec) : \A k \in 1..Len(rec[j]) :
            rec[j][k] = Letter(r)

\* C21: with several readers on the shared pools, under every interleaving
\* no pooled array is held by two readers at once or by a reader while the
\* pool holds it, and each reader returns the records it returns when run
\* alone on its input: no field holds a byte written by another reader or
\* left over from an earlier field.
C21_SharedPools ==
    /\ \A r \in Readers : \A q \in Readers \ {r} : Held(r) \cap Held(q) = {}
    /\ \A r \in Readers : Held(r) \cap fieldPool = {}
    /\ \A r \in Readers : OwnBytes(r)
    /\ \A r \in Readers :
          readers[r].rpc = "done"
              => readers[r].outs = Alone(readers[r].taken, << >>, << >>)

\* reader 2 has written its second field b over the array in which reader 1
\* had built aa: both have read to the end and hold their own values
C21_Witness ==
    /\ readers[1].rpc = "done" /\ readers[2].rpc = "done"
    /\ readers[1].outs = << << <<LetterA, LetterA>> >> >>
    /\ readers[2].outs = << << << >>, <<LetterB>> >> >>
    /\ \E id \in 1..Len(bufs) : bufs[id] = <<LetterB, LetterA>>
====
